---- MODULE Spec2Model ----
(***************************************************************************)
(* The ORCID authentication gate of app/main.py: AuthenticateMiddleware     *)
(* (a subclass of starlette_oauth2_api.AuthenticateMiddleware that also     *)
(* accepts the id_token kept in the browser session) and the endpoints      *)
(* that sit behind it.  app/protected_app.py carries a copy of the same     *)
(* __call__ body.                                                           *)
(*                                                                         *)
(* Python values are tagged records so that None, strings and dicts can be  *)
(* compared: a string is the sequence of its characters.                   *)
(***************************************************************************)
EXTENDS Naturals, Sequences, FiniteSets, TLC

\* session: request.session, the browser session the session middleware
\*          hands to every request of the one browser modelled here
\* reqs:    the requests in flight, one record per connection
VARIABLES session, reqs

vars == <<session, reqs>>

------------------------------------------------------------------------------
(* Bounds and input alphabets *)

\* number of distinct non-empty token strings in play
NumTokens == 2

Alphabet == <<"a", "b", "c", "d">>

\* the requests that may be in flight at once
Requests == {"r1", "r2"}

------------------------------------------------------------------------------
(* Python values *)

None == [kind |-> "None"]

Str(s) == [kind |-> "str", chars |-> s]

\* a prefix test that wants something after the prefix
startswith_Strict(s, p) ==
    /\ Len(p.chars) < Len(s.chars)
    /\ SubSeq(s.chars, 1, Len(p.chars)) = p.chars

\* s.startswith(p)
startswith(s, p) ==
    /\ Len(p.chars) <= Len(s.chars)
    /\ SubSeq(s.chars, 1, Len(p.chars)) = p.chars

\* s[n:]
SliceFrom(s, n) == Str(SubSeq(s.chars, n + 1, Len(s.chars)))

\* d.get(k, None)
Get(d, k) == IF k \in DOMAIN d THEN d[k] ELSE None

\* d[k] = v
Put(d, k, v) == [x \in DOMAIN d \cup {k} |-> IF x = k THEN v ELSE d[x]]

\* d.pop(k, None)
Pop(d, k) == [x \in DOMAIN d \ {k} |-> d[x]]

EmptyDict == [x \in {} |-> None]

Bearer == Str(<<"B", "e", "a", "r", "e", "r", " ">>)

------------------------------------------------------------------------------
(* Inputs the environment can supply *)

Tokens == {Str(<<Alphabet[i]>>) : i \in 1..NumTokens}

EmptyToken == Str(<< >>)

\* values of the authorization header: well-formed bearer headers (one of
\* them with nothing after the prefix) and headers without the prefix
HeaderValues ==
    {Str(Bearer.chars \o t.chars) : t \in Tokens \cup {EmptyToken}}
        \cup {Str(<<"B", "a", "s", "i", "c", " ", "a">>),
              Str(<<"B", "e", "a", "r", "e", "r">>)}

\* request.headers, as far as the gate looks at it
HeaderDicts == {EmptyDict} \cup {[authorization |-> h] : h \in HeaderValues}

\* request paths: the routes of the application and an extension of a public
\* path
Paths == {"/", "/login", "/auth", "/logout", "/protected", "/logout/x"}

\* what the identity provider's token endpoint answers: a mapping that
\* always has an access_token and carries an id_token when the provider
\* issued one
TokenResponses ==
    {[access_token |-> Str(<<"x">>), id_token |-> t] : t \in Tokens \cup {EmptyToken}}
        \cup {[access_token |-> Str(<<"x">>)]}

\* identity claims a verified token can carry
ClaimSets == {[sub |-> "0000-0001"], [sub |-> "0000-0002"]}

\* error lists of starlette_oauth2_api.InvalidToken
ErrorLists == {"Signature verification failed.", "Signature has expired."}

------------------------------------------------------------------------------
(* The application's configuration *)

public_paths == {"/", "/login", "/logout", "/auth"}

providers == {"orcid"}

MsgNoBearer == "The \"authorization\" header must start with \"Bearer \""

MsgNoHeader == "The request does not contain an \"authorization\" header"

------------------------------------------------------------------------------
(* A request on its way through the middleware stack *)

Unset == [kind |-> "unset"]

\* pc: idle, Start (received, at the gate), downstream (handed to self._app),
\* responded (the gate sent an error response), raised (an exception left
\* the gate or the endpoint), done (the endpoint answered).
\* user, token: the locals of __call__; verified: the argument self.claims
\* was called with; result: what self.claims answered; status, errors:
\* the response's status and, for the
\* gate's error response, its message; data: what the endpoint rendered;
\* forwarded: how often self._app was awaited; log: the steps taken.
Idle ==
    [pc |-> "idle", path |-> "", headers |-> EmptyDict, scope |-> EmptyDict,
     user |-> Unset, token |-> Unset, verified |-> Unset, result |-> Unset,
     status |-> 0, errors |-> "", data |-> None, forwarded |-> 0,
     log |-> << >>]

NewRequest(path, headers) ==
    [Idle EXCEPT !.pc = "Start", !.path = path, !.headers = headers]

\* self.claims(token): the verifier inherited from starlette_oauth2_api.  It
\* answers (provider, claims), raises InvalidToken(errors), or fails with
\* any other exception (the key set cannot be fetched, the token is not a
\* string).  Which of these it does for a given token is the environment's
\* choice: this is the set of its possible answers.
claims ==
    {[kind |-> "ok", provider |-> p, claims |-> c] : p \in providers, c \in ClaimSets}
        \cup {[kind |-> "InvalidToken", errors |-> e] : e \in ErrorLists}
        \cup {[kind |-> "Exception"]}

\* await self._app(scope, receive, send)
Downstream(req) ==
    [req EXCEPT !.pc = "downstream",
                !.forwarded = @ + 1,
                !.log = Append(@, "app")]

\* await self._prepare_error_response(message, status, scope, receive, send)
prepare_error_response(req, message, status) ==
    [req EXCEPT !.pc = "responded",
                !.status = status,
                !.errors = message,
                !.log = Append(@, "error")]

\* AttachClaims with the raw token left out of the scope
AttachClaims_NoJwt(req, provider, cl, token) ==
    [req EXCEPT !.scope = Put(Put(@, "oauth2-claims", cl),
                              "oauth2-provider", provider)]

\* the three assignments into scope after self.claims returned
AttachClaims(req, provider, cl, token) ==
    [req EXCEPT !.scope = Put(Put(Put(@, "oauth2-claims", cl),
                                  "oauth2-provider", provider),
                              "oauth2-jwt", token)]

\* Verify with the InvalidToken handler swallowing the error and going on to
\* the endpoint
Verify_InvalidForwarded(req, token, outcome) ==
    LET r == [req EXCEPT !.verified = token,
                         !.result = outcome,
                         !.log = Append(@, "claims")]
    IN  CASE outcome.kind = "ok" ->
               Downstream(AttachClaims(r, outcome.provider, outcome.claims, token))
          [] outcome.kind = "InvalidToken" ->
               Downstream(r)
          [] outcome.kind = "Exception" ->
               [r EXCEPT !.pc = "raised"]

\* Verify with the raw token put into the scope before the verifier is called
Verify_JwtBeforeClaims(req, token, outcome) ==
    LET r == [req EXCEPT !.verified = token,
                         !.result = outcome,
                         !.scope = Put(@, "oauth2-jwt", token),
                         !.log = Append(@, "claims")]
    IN  CASE outcome.kind = "ok" ->
               Downstream(AttachClaims(r, outcome.provider, outcome.claims, token))
          [] outcome.kind = "InvalidToken" ->
               prepare_error_response(r, outcome.errors, 401)
          [] outcome.kind = "Exception" ->
               [r EXCEPT !.pc = "raised"]

\* the try block: verify the token, attach the claims, forward; or answer
\* 401 on InvalidToken; any other exception propagates out of __call__
Verify(req, token, outcome) ==
    LET r == [req EXCEPT !.verified = token,
                         !.result = outcome,
                         !.log = Append(@, "claims")]
    IN  CASE outcome.kind = "ok" ->
               Downstream(AttachClaims(r, outcome.provider, outcome.claims, token))
          [] outcome.kind = "InvalidToken" ->
               prepare_error_response(r, outcome.errors, 401)
          [] outcome.kind = "Exception" ->
               [r EXCEPT !.pc = "raised"]

\* FromHeader with the two rejections merged into one branch
FromHeader_OneMessage(req, outcome) ==
    LET r == [req EXCEPT !.log = Append(@, "headers")]
    IN  IF /\ "authorization" \in DOMAIN req.headers
           /\ startswith(req.headers["authorization"], Bearer)
        THEN LET token == SliceFrom(req.headers["authorization"],
                                    Len(Bearer.chars))
             IN  Verify([r EXCEPT !.token = token], token, outcome)
        ELSE prepare_error_response(r, MsgNoBearer, 400)

\* FromHeader testing only that the header is there
FromHeader_AnyScheme(req, outcome) ==
    LET r == [req EXCEPT !.log = Append(@, "headers")]
    IN  IF "authorization" \in DOMAIN req.headers
        THEN LET token == SliceFrom(req.headers["authorization"],
                                    Len(Bearer.chars))
             IN  Verify([r EXCEPT !.token = token], token, outcome)
        ELSE prepare_error_response(r, MsgNoHeader, 400)

\* the branches on the authorization header, taken when the session has no
\* user
FromHeader(req, outcome) ==
    LET r == [req EXCEPT !.log = Append(@, "headers")]
    IN  IF /\ "authorization" \in DOMAIN req.headers
           /\ startswith(req.headers["authorization"], Bearer)
        THEN LET token == SliceFrom(req.headers["authorization"],
                                    Len(Bearer.chars))
             IN  Verify([r EXCEPT !.token = token], token, outcome)
        ELSE IF "authorization" \in DOMAIN req.headers
        THEN prepare_error_response(r, MsgNoBearer, 400)
        ELSE prepare_error_response(r, MsgNoHeader, 400)

\* CredentialCheck with the two channels in the other order: a bearer header
\* wins over the session
CredentialCheck_HeaderFirst(req, sess, outcome) ==
    LET user == Get(sess, "user")
        r == [req EXCEPT !.token = None, !.user = user,
                         !.log = Append(@, "session")]
    IN  IF /\ "authorization" \in DOMAIN req.headers
           /\ startswith(req.headers["authorization"], Bearer)
        THEN FromHeader(r, outcome)
        ELSE IF user # None
        THEN LET token == Get(user, "id_token")
             IN  Verify([r EXCEPT !.token = token], token, outcome)
        ELSE FromHeader(r, outcome)

\* the credential check: the session's user first, the header otherwise
CredentialCheck(req, sess, outcome) ==
    LET user == Get(sess, "user")
        r == [req EXCEPT !.token = None, !.user = user,
                         !.log = Append(@, "session")]
    IN  IF user # None
        THEN LET token == Get(user, "id_token")
             IN  Verify([r EXCEPT !.token = token], token, outcome)
        ELSE FromHeader(r, outcome)

\* the segments of the request paths
Segments(path) ==
    CASE path = "/" -> << >>
      [] path = "/login" -> <<"login">>
      [] path = "/auth" -> <<"auth">>
      [] path = "/logout" -> <<"logout">>
      [] path = "/protected" -> <<"protected">>
      [] path = "/logout/x" -> <<"logout", "x">>

IsPrefix(a, b) == Len(a) <= Len(b) /\ SubSeq(b, 1, Len(a)) = a

\* the path check by prefix: a path under a public path is public
IsPublic_PrefixMatch(path) ==
    \E p \in public_paths : IsPrefix(Segments(p), Segments(path))

\* the path check
IsPublic(path) == path \in public_paths

\* GateResult without the public-path exemption
GateResult_NoPublicPass(req, sess, outcome) ==
    CredentialCheck([req EXCEPT !.log = Append(@, "path")], sess, outcome)

\* AuthenticateMiddleware.__call__ as a function of the request, the session
\* and the verifier's answer
GateResult(req, sess, outcome) ==
    LET r == [req EXCEPT !.log = Append(@, "path")]
    IN  IF IsPublic(req.path)
        THEN Downstream(r)
        ELSE CredentialCheck(r, sess, outcome)

------------------------------------------------------------------------------
(* The endpoints behind the gate *)

\* the routes registered with @app.get
Route(path) ==
    CASE path = "/" -> "home"
      [] path = "/login" -> "login"
      [] path = "/auth" -> "auth"
      [] path = "/logout" -> "logout"
      [] path = "/protected" -> "protected"
      [] OTHER -> "none"

AtEndpoint(r, name) ==
    /\ reqs[r].pc = "downstream"
    /\ Route(reqs[r].path) = name

Answer(req, status, data) ==
    [req EXCEPT !.pc = "done", !.status = status, !.data = data]

------------------------------------------------------------------------------
(* Actions *)

Init ==
    /\ session = EmptyDict
    /\ reqs = [r \in Requests |-> Idle]

\* a request arrives; the session middleware has loaded the browser session
Receive(r) ==
    /\ reqs[r].pc = "idle"
    /\ \E path \in Paths, headers \in HeaderDicts :
          reqs' = [reqs EXCEPT ![r] = NewRequest(path, headers)]
    /\ UNCHANGED session

\* the gate dropping the session's user when it rejects the request
AuthenticateMiddleware_call_ClearsSession(r) ==
    /\ reqs[r].pc = "Start"
    /\ \E outcome \in claims :
          LET q == GateResult(reqs[r], session, outcome)
          IN  /\ reqs' = [reqs EXCEPT ![r] = q]
              /\ session' = IF q.pc = "responded" THEN Pop(session, "user")
                                                  ELSE session

\* the gate working on the headers of whichever request an attribute shared
\* by all requests holds
AuthenticateMiddleware_call_SharedRequest(r) ==
    /\ reqs[r].pc = "Start"
    /\ \E outcome \in claims, other \in Requests :
          /\ reqs[other].pc # "idle"
          /\ reqs' = [reqs EXCEPT ![r] =
                 GateResult([reqs[r] EXCEPT !.headers = reqs[other].headers],
                            session, outcome)]
    /\ UNCHANGED session

\* AuthenticateMiddleware.__call__ up to the point where it hands the
\* request on, answers it, or fails
AuthenticateMiddleware_call(r) ==
    /\ reqs[r].pc = "Start"
    /\ \E outcome \in claims :
          reqs' = [reqs EXCEPT ![r] = GateResult(reqs[r], session, outcome)]
    /\ UNCHANGED session

\* GET / : show the session's user or a link to login
home(r) ==
    /\ AtEndpoint(r, "home")
    /\ reqs' = [reqs EXCEPT ![r] = Answer(@, 200, [user |-> Get(session, "user")])]
    /\ UNCHANGED session

\* GET /login : redirect to the identity provider
login(r) ==
    /\ AtEndpoint(r, "login")
    /\ reqs' = [reqs EXCEPT ![r] = Answer(@, 302, None)]
    /\ UNCHANGED session

\* auth keeping the token mapping under another session key
auth_WrongKey(r) ==
    /\ AtEndpoint(r, "auth")
    /\ \/ \E token \in TokenResponses :
             /\ session' = Put(session, "token", token)
             /\ reqs' = [reqs EXCEPT ![r] = Answer(@, 302, None)]
       \/ /\ reqs' = [reqs EXCEPT ![r].pc = "raised"]
          /\ UNCHANGED session

\* GET /auth : the provider's callback; the token exchange answers with a
\* token mapping, which is stored as the session's user, or fails
auth(r) ==
    /\ AtEndpoint(r, "auth")
    /\ \/ \E token \in TokenResponses :
             /\ session' = Put(session, "user", token)
             /\ reqs' = [reqs EXCEPT ![r] = Answer(@, 302, None)]
       \/ /\ reqs' = [reqs EXCEPT ![r].pc = "raised"]
          /\ UNCHANGED session

\* logout leaving the session as it is
logout_KeepsUser(r) ==
    /\ AtEndpoint(r, "logout")
    /\ reqs' = [reqs EXCEPT ![r] = Answer(@, 302, None)]
    /\ UNCHANGED session

\* GET /logout : drop the user from the session
logout(r) ==
    /\ AtEndpoint(r, "logout")
    /\ session' = Pop(session, "user")
    /\ reqs' = [reqs EXCEPT ![r] = Answer(@, 302, None)]

\* GET /protected : render what the gate attached to the scope; a missing
\* entry is a KeyError
protected(r) ==
    /\ AtEndpoint(r, "protected")
    /\ LET scope == reqs[r].scope
       IN  reqs' = [reqs EXCEPT ![r] =
              IF {"oauth2-claims", "oauth2-provider", "oauth2-jwt"} \subseteq DOMAIN scope
              THEN Answer(@, 200, [claims |-> scope["oauth2-claims"],
                                   provider |-> scope["oauth2-provider"],
                                   id_token |-> scope["oauth2-jwt"]])
              ELSE [@ EXCEPT !.pc = "raised"]]
    /\ UNCHANGED session

\* a path no route matches: the router answers 404
not_found(r) ==
    /\ AtEndpoint(r, "none")
    /\ reqs' = [reqs EXCEPT ![r] = Answer(@, 404, None)]
    /\ UNCHANGED session

\* the response has been sent (or the failure reported); the connection is
\* free for the next request
Complete(r) ==
    /\ reqs[r].pc \in {"responded", "raised", "done"}
    /\ reqs' = [reqs EXCEPT ![r] = Idle]
    /\ UNCHANGED session

Next ==
    \E r \in Requests :
        \/ Receive(r)
        \/ AuthenticateMiddleware_call(r)
        \/ home(r)
        \/ login(r)
        \/ auth(r)
        \/ logout(r)
        \/ protected(r)
        \/ not_found(r)
        \/ Complete(r)

Spec == Init /\ [][Next]_vars

------------------------------------------------------------------------------
(* Vocabulary of the properties *)

ClaimKeys == {"oauth2-claims", "oauth2-provider", "oauth2-jwt"}

HasClaims(q) == ClaimKeys \subseteq DOMAIN q.scope

NoClaims(q) == DOMAIN q.scope \cap ClaimKeys = {}

NonPublic(q) == q.path \notin public_paths

\* __call__ has run for the request
GateDone(q) == q.pc \in {"downstream", "responded", "raised", "done"}

\* the step in which __call__ runs for request r
GateStep(r) == reqs[r].pc = "Start" /\ reqs'[r].pc # "Start"

\* the gate answered the request itself
Rejected(q, status) == q.pc = "responded" /\ q.status = status /\ q.forwarded = 0

HasBearerPrefix(h) ==
    /\ Len(h.chars) >= 7
    /\ SubSeq(h.chars, 1, 7) = <<"B", "e", "a", "r", "e", "r", " ">>

AfterPrefix(h) == Str(SubSeq(h.chars, 8, Len(h.chars)))

HasIdToken(sess) ==
    /\ "user" \in DOMAIN sess
    /\ "id_token" \in DOMAIN sess["user"]

------------------------------------------------------------------------------
(* C1: after the gate has processed a request for a non-public path, exactly
   one of "claims attached" and "error response produced" holds, and the
   request was handed downstream only with the claims attached. *)
C1_ClaimsOrErrorResponse ==
    \A r \in Requests :
        LET q == reqs[r]
        IN  (GateDone(q) /\ NonPublic(q)) =>
               /\ HasClaims(q) \/ q.pc = "responded"
               /\ ~(HasClaims(q) /\ q.pc = "responded")
               /\ q.forwarded > 0 => HasClaims(q)

(* C2: a request for a public path is handed downstream after the path check
   alone: the session and the header are not read, the verifier is not
   called, nothing is attached to the scope, whatever the request carries. *)
C2_PublicPathForwardedUntouched ==
    \A r \in Requests :
        LET q == reqs[r]
        IN  (GateDone(q) /\ ~NonPublic(q)) =>
               /\ q.log = <<"path", "app">>
               /\ q.user = Unset /\ q.token = Unset
               /\ q.verified = Unset /\ q.result = Unset
               /\ DOMAIN q.scope = {}
               /\ q.forwarded = 1
               /\ q.errors = ""
               /\ q.pc # "responded"

C2_Witness ==
    \E r \in Requests :
        LET q == reqs[r]
        IN  /\ q.pc = "downstream" /\ ~NonPublic(q)
            /\ "authorization" \in DOMAIN q.headers
            /\ ~HasBearerPrefix(q.headers["authorization"])
            /\ HasIdToken(session)

(* C3: when the session holds user.id_token = T, the gate verifies T (and
   attaches T as the raw token on success) whatever the authorization header
   is, and never answers 400. *)
C3_SessionTokenPrecedence ==
    [][\A r \in Requests :
          (GateStep(r) /\ NonPublic(reqs[r]) /\ HasIdToken(session)) =>
             LET T == session["user"]["id_token"]
                 q == reqs'[r]
             IN  /\ q.verified = T
                 /\ q.status # 400
                 /\ q.result.kind = "ok" =>
                       (HasClaims(q) /\ q.scope["oauth2-jwt"] = T)]_vars

C3_Witness ==
    \E r \in Requests :
        LET q == reqs[r]
        IN  /\ q.pc = "downstream" /\ NonPublic(q)
            /\ q.user \notin {Unset, None}
            /\ "id_token" \in DOMAIN q.user
            /\ "authorization" \in DOMAIN q.headers
            /\ HasBearerPrefix(q.headers["authorization"])
            /\ AfterPrefix(q.headers["authorization"]) # q.user["id_token"]
            /\ q.verified = q.user["id_token"]
            /\ HasClaims(q)

(* C4: when the session has a user without an id_token (or with an empty
   one), the authorization header decides as if there were no user: a bearer
   header is verified, a header without the prefix is answered 400
   (malformed), no header is answered 400 (absent). *)
C4_UserWithoutIdTokenFallsBackToHeader ==
    [][\A r \in Requests :
          (/\ GateStep(r) /\ NonPublic(reqs[r])
           /\ "user" \in DOMAIN session
           /\ IF "id_token" \in DOMAIN session["user"]
              THEN session["user"]["id_token"] = EmptyToken
              ELSE TRUE) =>
             LET hs == reqs[r].headers
                 q == reqs'[r]
             IN  IF "authorization" \in DOMAIN hs
                 THEN IF HasBearerPrefix(hs["authorization"])
                      THEN q.verified = AfterPrefix(hs["authorization"])
                      ELSE Rejected(q, 400) /\ q.errors = MsgNoBearer
                 ELSE Rejected(q, 400) /\ q.errors = MsgNoHeader]_vars

(* C5: every failure of the verification (InvalidToken or any other error,
   such as an unavailable key set) ends in a 401 response of the gate: no
   exception leaves the gate, and the request is not handed downstream. *)
C5_VerifierFailureBecomes401 ==
    \A r \in Requests :
        LET q == reqs[r]
        IN  q.result.kind \in {"InvalidToken", "Exception"} =>
               Rejected(q, 401)

(* C6: a non-public request with no session user and no authorization header
   is answered 400 with the message that the header is absent, and is not
   handed downstream. *)
C6_NoCredential400 ==
    [][\A r \in Requests :
          (/\ GateStep(r) /\ NonPublic(reqs[r])
           /\ "user" \notin DOMAIN session
           /\ "authorization" \notin DOMAIN reqs[r].headers) =>
             LET q == reqs'[r]
             IN  /\ Rejected(q, 400)
                 /\ q.errors = MsgNoHeader
                 /\ q.verified = Unset]_vars

C6_Witness ==
    \E r \in Requests :
        LET q == reqs[r]
        IN  /\ NonPublic(q) /\ q.user = None
            /\ "authorization" \notin DOMAIN q.headers
            /\ Rejected(q, 400) /\ q.errors = MsgNoHeader

(* C7: a non-public request with no session user and an authorization header
   that does not start with "Bearer " is answered 400 with the message that
   the header must start with "Bearer ", and is not handed downstream. *)
C7_MalformedHeader400 ==
    [][\A r \in Requests :
          (/\ GateStep(r) /\ NonPublic(reqs[r])
           /\ "user" \notin DOMAIN session
           /\ "authorization" \in DOMAIN reqs[r].headers
           /\ ~HasBearerPrefix(reqs[r].headers["authorization"])) =>
             LET q == reqs'[r]
             IN  /\ Rejected(q, 400)
                 /\ q.errors = MsgNoBearer
                 /\ q.verified = Unset]_vars

C7_Witness ==
    \E r \in Requests :
        LET q == reqs[r]
        IN  /\ NonPublic(q) /\ q.user = None
            /\ "authorization" \in DOMAIN q.headers
            /\ ~HasBearerPrefix(q.headers["authorization"])
            /\ Rejected(q, 400) /\ q.errors = MsgNoBearer

(* C8: when the verifier raises InvalidToken, the gate answers 401 with the
   verifier's errors, does not hand the request downstream, and the scope
   holds none of the claims, provider and raw-token entries. *)
C8_InvalidTokenRejected401 ==
    \A r \in Requests :
        LET q == reqs[r]
        IN  q.result.kind = "InvalidToken" =>
               /\ Rejected(q, 401)
               /\ q.errors = q.result.errors
               /\ NoClaims(q)

C8_Witness ==
    \E r \in Requests :
        LET q == reqs[r]
        IN  /\ NonPublic(q)
            /\ q.result.kind = "InvalidToken"
            /\ Rejected(q, 401) /\ q.errors = q.result.errors

\* the token the gate is to verify: the session's id_token, or the header
\* with the prefix removed
RawToken(q) ==
    IF q.user # None
    THEN Get(q.user, "id_token")
    ELSE AfterPrefix(q.headers["authorization"])

(* C9: when the verifier succeeds, the scope holds the claims and provider
   it returned and the raw token that was verified (the session's id_token,
   or the header without its prefix); the request is handed downstream
   exactly once, no error response is produced, and the endpoint reads these
   three entries. *)
C9_VerifiedClaimsAttachedAndForwarded ==
    \A r \in Requests :
        LET q == reqs[r]
        IN  q.result.kind = "ok" =>
               /\ HasClaims(q)
               /\ q.scope["oauth2-claims"] = q.result.claims
               /\ q.scope["oauth2-provider"] = q.result.provider
               /\ q.scope["oauth2-jwt"] = q.verified
               /\ q.verified = RawToken(q)
               /\ q.forwarded = 1
               /\ q.pc \in {"downstream", "done"}
               /\ q.errors = ""
               /\ (q.pc = "done" /\ q.path = "/protected") =>
                     q.data = [claims |-> q.result.claims,
                               provider |-> q.result.provider,
                               id_token |-> q.verified]

C9_Witness ==
    \E r \in Requests :
        LET q == reqs[r]
        IN  /\ q.result.kind = "ok"
            /\ q.user = None
            /\ q.pc = "done" /\ q.path = "/protected"
            /\ q.data # None
            /\ q.data.id_token \in Tokens
            /\ q.data.id_token = AfterPrefix(q.headers["authorization"])

(* C10: logout removes the user from the session, and the session stays
   without a user until the next /auth callback; a protected request that
   then comes without an authorization header is answered 400.  The token is
   not invalidated: a protected request that presents it as a bearer header
   is verified and, when the verifier accepts it, authenticated. *)
C10_LogoutDropsSessionNotToken ==
    [][/\ \A r \in Requests :
             (AtEndpoint(r, "logout") /\ reqs'[r].pc = "done") =>
                "user" \notin DOMAIN session'
       /\ ("user" \notin DOMAIN session /\ "user" \in DOMAIN session') =>
             \E r \in Requests : AtEndpoint(r, "auth") /\ reqs'[r].pc = "done"
       /\ \A r \in Requests :
             (GateStep(r) /\ NonPublic(reqs[r]) /\ "user" \notin DOMAIN session) =>
                LET hs == reqs[r].headers
                    q == reqs'[r]
                IN  /\ "authorization" \notin DOMAIN hs => Rejected(q, 400)
                    /\ ("authorization" \in DOMAIN hs
                          /\ HasBearerPrefix(hs["authorization"])) =>
                          /\ q.verified = AfterPrefix(hs["authorization"])
                          /\ q.result.kind = "ok" =>
                                /\ HasClaims(q)
                                /\ q.scope["oauth2-jwt"] = AfterPrefix(hs["authorization"])
                                /\ q.pc = "downstream"
                                /\ q.forwarded = 1]_vars

\* one request saw T as the session's id_token, the user has since been
\* removed from the session, and another request is authenticated with T as
\* its bearer token
C10_Witness ==
    \E r1, r2 \in Requests :
        LET q1 == reqs[r1]
            q2 == reqs[r2]
        IN  /\ r1 # r2
            /\ q1.user \notin {Unset, None}
            /\ "id_token" \in DOMAIN q1.user
            /\ q1.user["id_token"] \in Tokens
            /\ "user" \notin DOMAIN session
            /\ NonPublic(q2) /\ q2.user = None
            /\ "authorization" \in DOMAIN q2.headers
            /\ AfterPrefix(q2.headers["authorization"]) = q1.user["id_token"]
            /\ HasBearerPrefix(q2.headers["authorization"])
            /\ HasClaims(q2)
            /\ q2.scope["oauth2-jwt"] = q1.user["id_token"]
            /\ q2.pc = "downstream"


(* C11: processing a request through the gate, whatever its outcome, leaves
   the session as it was: the gate reads the user entry and writes nothing. *)
C11_GateLeavesSessionUnchanged ==
    [][\A r \in Requests : GateStep(r) => session' = session]_vars

\* a request the gate rejected after reading the session's user, which is
\* still in the session
C11_Witness ==
    \E r \in Requests :
        LET q == reqs[r]
        IN  /\ Rejected(q, 401)
            /\ q.user \notin {Unset, None}
            /\ HasIdToken(session)
            /\ session["user"] = q.user

\* what the gate is to verify for the request, given the session it reads
OwnCredential(req, sess) ==
    IF "user" \in DOMAIN sess
    THEN Get(sess["user"], "id_token")
    ELSE AfterPrefix(req.headers["authorization"])

(* C12: with requests in flight at once, the gate's step for one request
   leaves every other request as it was, and its outcome is the one the
   request gets when processed alone with the same session and the same
   verifier answer: the token verified and attached is its own, the claims
   are those the verifier returned to it, the rejection is its own. *)
C12_RequestsDoNotInterfere ==
    [][\A r \in Requests :
          GateStep(r) =>
             LET old == reqs[r]
                 q == reqs'[r]
             IN  /\ \A o \in Requests \ {r} : reqs'[o] = reqs[o]
                 /\ q.path = old.path /\ q.headers = old.headers
                 /\ q.verified # Unset => q.verified = OwnCredential(old, session)
                 /\ HasClaims(q) =>
                       /\ q.scope["oauth2-jwt"] = OwnCredential(old, session)
                       /\ q.scope["oauth2-claims"] = q.result.claims
                 /\ q.pc = "responded" =>
                       \/ q.status = 401 /\ q.errors = q.result.errors
                       \/ q.status = 400 /\ q.verified = Unset
                                         /\ "user" \notin DOMAIN session
                                         /\ ~ (/\ "authorization" \in DOMAIN old.headers
                                               /\ HasBearerPrefix(old.headers["authorization"]))
                 /\ \E outcome \in claims :
                       q = GateResult(NewRequest(old.path, old.headers),
                                      session, outcome)]_vars

\* two requests in flight, both past the gate, authenticated with different
\* tokens and different claims
C12_Witness ==
    \E r1, r2 \in Requests :
        LET q1 == reqs[r1]
            q2 == reqs[r2]
        IN  /\ r1 # r2
            /\ q1.pc = "downstream" /\ q2.pc = "downstream"
            /\ HasClaims(q1) /\ HasClaims(q2)
            /\ q1.scope["oauth2-jwt"] # q2.scope["oauth2-jwt"]
            /\ q1.scope["oauth2-claims"] # q2.scope["oauth2-claims"]
            /\ q1.user = None /\ q2.user # None


\* the terminal states of the gate's state machine
PublicPass(q) == ~NonPublic(q) /\ q.forwarded = 1 /\ NoClaims(q)

Authenticated(q) == NonPublic(q) /\ q.forwarded = 1 /\ HasClaims(q)

RejectedByGate(q) == Rejected(q, 400) \/ Rejected(q, 401)

(* C13: a request that entered the gate ends in exactly one of the terminal
   states PublicPass, Authenticated and Rejected (also when the verification
   cannot get its key set): once __call__ is over, one of the three holds. *)
C13_GateEndsInOneTerminalState ==
    \A r \in Requests :
        LET q == reqs[r]
        IN  GateDone(q) =>
               /\ PublicPass(q) \/ Authenticated(q) \/ RejectedByGate(q)
               /\ ~(PublicPass(q) /\ Authenticated(q))
               /\ ~(PublicPass(q) /\ RejectedByGate(q))
               /\ ~(Authenticated(q) /\ RejectedByGate(q))


\* the positions of a step in a request's log
Positions(q, step) == {i \in DOMAIN q.log : q.log[i] = step}

\* the order of the gate's steps, apart from what the verifier is given
StepsInOrder(q) ==
    /\ q.log[1] = "path"
    /\ NonPublic(q) => (Len(q.log) >= 2 /\ q.log[2] = "session")
    /\ Cardinality(Positions(q, "claims")) <= 1
    /\ \A i \in Positions(q, "claims") : i > 2
    /\ Rejected(q, 400) =>
          (Positions(q, "claims") = {} /\ q.verified = Unset /\ q.result = Unset)

(* C15: within a request the path check comes first and the credential check
   second; the verifier is called at most once, and only after a session
   token or a bearer token was found; a request answered 400 never reaches
   the verifier. *)
C15_StepsOrderedVerifierOnlyWithToken ==
    \A r \in Requests :
        LET q == reqs[r]
        IN  GateDone(q) =>
               /\ StepsInOrder(q)
               /\ Positions(q, "claims") # {} => q.verified.kind = "str"


\* the path is not public but starts with the segments of a public path
ExtendsPublicPath(path) ==
    /\ path \notin public_paths
    /\ \E p \in public_paths : IsPrefix(Segments(p), Segments(path))

(* C16: a path is public exactly when it equals a member of the public path
   set; a path that only extends a public path goes through the credential
   check like any protected path. *)
C16_PublicPathByExactMatch ==
    \A r \in Requests :
        LET q == reqs[r]
        IN  GateDone(q) =>
               /\ (q.log = <<"path", "app">>) <=> (\E p \in public_paths : q.path = p)
               /\ ExtendsPublicPath(q.path) =>
                     /\ Len(q.log) >= 2 /\ q.log[2] = "session"
                     /\ q.user # Unset
                     /\ q.forwarded > 0 => HasClaims(q)

\* a request for /logout/x, which extends the public /logout, rejected for
\* want of a credential
C16_Witness ==
    \E r \in Requests :
        LET q == reqs[r]
        IN  /\ q.path = "/logout/x"
            /\ ExtendsPublicPath(q.path)
            /\ Rejected(q, 400)
            /\ q.log = <<"path", "session", "headers", "error">>


(* C17: in every state the scope of a request holds either none or all of
   oauth2-claims, oauth2-provider and oauth2-jwt, and it holds them only
   when the verifier has returned successfully for that request. *)
C17_ClaimsEntriesAllOrNone ==
    \A r \in Requests :
        LET q == reqs[r]
        IN  /\ NoClaims(q) \/ HasClaims(q)
            /\ HasClaims(q) => q.result.kind = "ok"
            /\ DOMAIN q.scope \subseteq ClaimKeys

\* a request authenticated from the session, with the three entries in
\* its scope, next to a request the verifier turned down, with none
C17_Witness ==
    \E r1, r2 \in Requests :
        /\ HasClaims(reqs[r1]) /\ reqs[r1].result.kind = "ok"
        /\ reqs[r1].user \notin {Unset, None}
        /\ reqs[r2].result.kind = "InvalidToken" /\ NoClaims(reqs[r2])


(* C18: when the /auth callback succeeds, the token mapping is the session's
   user; the entry stays until a logout removes it (or a later callback
   replaces it); and while it is there a protected request without an
   authorization header reaches the verifier with the stored id_token and is
   not answered 400. *)
C18_SessionTokenUsedAfterAuth ==
    [][/\ \A r \in Requests :
             (AtEndpoint(r, "auth") /\ reqs'[r].pc = "done") =>
                /\ "user" \in DOMAIN session'
                /\ session'["user"] \in TokenResponses
       /\ session' # session =>
             \E r \in Requests :
                \/ AtEndpoint(r, "auth") /\ "user" \in DOMAIN session'
                \/ AtEndpoint(r, "logout") /\ "user" \notin DOMAIN session'
       /\ \A r \in Requests :
             (/\ GateStep(r) /\ NonPublic(reqs[r])
              /\ "user" \in DOMAIN session
              /\ "authorization" \notin DOMAIN reqs[r].headers) =>
                LET q == reqs'[r]
                IN  /\ q.verified = Get(session["user"], "id_token")
                    /\ Positions(q, "claims") # {}
                    /\ q.status # 400]_vars

\* a header-less protected request authenticated with the id_token that the
\* callback stored and that is still in the session
C18_Witness ==
    \E r \in Requests :
        LET q == reqs[r]
        IN  /\ NonPublic(q) /\ q.pc = "downstream"
            /\ "authorization" \notin DOMAIN q.headers
            /\ HasIdToken(session)
            /\ session["user"] \in TokenResponses
            /\ session["user"]["id_token"] \in Tokens
            /\ q.verified = session["user"]["id_token"]
            /\ HasClaims(q)


\* the header is the prefix "Bearer " and nothing more
IsBarePrefix(hs) ==
    /\ "authorization" \in DOMAIN hs
    /\ hs["authorization"].chars = <<"B", "e", "a", "r", "e", "r", " ">>

(* C19: a non-public request with no session user whose authorization header
   is exactly "Bearer " is taken as well-formed: the empty token goes to the
   verifier, and the gate answers it, if at all, with 401 and never with one
   of the 400 rejections. *)
C19_BarePrefixVerifiedAsEmptyToken ==
    [][\A r \in Requests :
          (/\ GateStep(r) /\ NonPublic(reqs[r])
           /\ "user" \notin DOMAIN session
           /\ IsBarePrefix(reqs[r].headers)) =>
             LET q == reqs'[r]
             IN  /\ q.verified = Str(<< >>)
                 /\ Positions(q, "claims") # {}
                 /\ q.status # 400
                 /\ q.errors \notin {MsgNoBearer, MsgNoHeader}
                 /\ q.pc = "responded" =>
                       (q.status = 401 /\ q.result.kind = "InvalidToken")]_vars

C19_Witness ==
    \E r \in Requests :
        LET q == reqs[r]
        IN  /\ NonPublic(q) /\ q.user = None
            /\ IsBarePrefix(q.headers)
            /\ q.verified = Str(<< >>)
            /\ Rejected(q, 401)

====
